---- MODULE Spec2Model ----
(***************************************************************************)
(* ChromeTabsPool (src/index.js): a pool of reusable Chrome tabs.          *)
(*                                                                         *)
(* Every async method runs synchronously up to its next `await`; each      *)
(* action below is one such synchronous stretch of one call.  Calls of     *)
(* different callers interleave only at the awaits.                        *)
(***************************************************************************)
EXTENDS Integers, Sequences, FiniteSets, TLC

\* ------------------------------------------------------------------ bounds
NumCallers == 3      \* concurrent callers of the pool
MaxCap == 2          \* maxTab is drawn from 1..MaxCap
MaxExisting == 1     \* page targets already open when the pool is built
MaxTabId == 3        \* chrome.New hands out ids up to this one

Callers == 1..NumCallers
TabIds == 1..MaxTabId
NoTab == 0           \* JavaScript `undefined` as a tab id
NoCaller == 0        \* no caller

VARIABLES
    tabs,                 \* this.tabs: entries [id, free] in key (insertion) order
    maxTab,               \* this.maxTab
    existing,             \* how many page targets chrome.List returned to new()
    requireResolveTasks,  \* this.requireResolveTasks: resolvers, named by their caller
    chromeLauncher,       \* this.chromeLauncher: "set" or "null" (tabs, port and
                          \* requireResolveTasks are nulled in the same step)
    nextId,               \* the id the browser gives its next new target
    pc,                   \* where each caller's current call is suspended
    tabId,                \* the call's local tabId / id (NoTab = undefined)
    held,                 \* the session whose handle the caller holds (NoTab = none)
    thrown,               \* the caller whose call rejected in the last step (NoCaller = none)
    popped,               \* the caller whose resolver the last step popped and called (NoCaller = none)
    killPc,               \* where the destroyPoll call is
    arrival               \* history: parked callers, longest-parked first

vars == <<tabs, maxTab, existing, requireResolveTasks, chromeLauncher, nextId, pc,
          tabId, held, thrown, popped, killPc, arrival>>

\* ----------------------------------------------------------------- helpers
\* the keys of this.tabs
KeySet == {tabs[i].id : i \in 1..Len(tabs)}

\* this.tabs[id].free
IsFree(id) == \E i \in 1..Len(tabs) : tabs[i].id = id /\ tabs[i].free

\* Object.keys(this.tabs).find(id => this.tabs[id].free): first free key, or undefined
FindFree ==
    IF \E i \in 1..Len(tabs) : tabs[i].free
    THEN tabs[CHOOSE i \in 1..Len(tabs) :
                 tabs[i].free /\ \A j \in 1..(i - 1) : ~tabs[j].free].id
    ELSE NoTab

\* tab.free = v on the entry of id
SetFree(id, v) ==
    [i \in 1..Len(tabs) |->
        IF tabs[i].id = id THEN [tabs[i] EXCEPT !.free = v] ELSE tabs[i]]

\* every known tab is registered anew as free, the way new() registers the listed ones
RegisterAllFree(id) ==
    Append([i \in 1..Len(tabs) |-> [tabs[i] EXCEPT !.free = TRUE]],
           [id |-> id, free |-> TRUE])

\* this.tabs[id] = {free: true, client}: a new key goes last, an old key keeps its place
Register(id) ==
    IF id \in KeySet THEN SetFree(id, TRUE)
    ELSE Append(tabs, [id |-> id, free |-> TRUE])

\* the pool's fields have been set to null by destroyPoll
IsNull == chromeLauncher = "null"

\* the resolver is pushed at the tail, where pop() finds it first
UnshiftAsPush(q, c) == Append(q, c)

\* requireResolveTasks.unshift(resolve)
Unshift(q, c) == <<c>> \o q

\* the resolver requireResolveTasks.pop() returns
PopValue(q) == q[Len(q)]

\* the queue is emptied instead of losing its last element
PopRestClears(q) == SubSeq(q, 1, 0)

\* requireResolveTasks after pop()
PopRest(q) == SubSeq(q, 1, Len(q) - 1)

\* the parked callers once c's resolver has been called
Without(s, c) == SelectSeq(s, LAMBDA x : x # c)

\* --------------------------------------------------------------------- Init
\* the pool as ChromeTabsPool.new(maxTab) returns it
Init ==
    /\ maxTab \in 1..MaxCap
    /\ existing \in 0..MaxExisting
    /\ tabs = [i \in 1..existing |-> [id |-> i, free |-> TRUE]]
    /\ nextId = existing + 1
    /\ requireResolveTasks = <<>>
    /\ chromeLauncher = "set"
    /\ pc = [c \in Callers |-> "idle"]
    /\ tabId = [c \in Callers |-> NoTab]
    /\ held = [c \in Callers |-> NoTab]
    /\ thrown = NoCaller
    /\ popped = NoCaller
    /\ killPc = "none"
    /\ arrival = <<>>

\* a call ends by throwing: its promise rejects
Throw(c) ==
    /\ pc' = [pc EXCEPT ![c] = "idle"]
    /\ tabId' = [tabId EXCEPT ![c] = NoTab]
    /\ thrown' = c
    /\ popped' = NoCaller

\* ------------------------------------------------------------------ require
\* return tab.client without setting tab.free to false
TakeTabKeepsFree(c, id) ==
    /\ tabs' = tabs
    /\ held' = [held EXCEPT ![c] = id]
    /\ pc' = [pc EXCEPT ![c] = "idle"]
    /\ tabId' = [tabId EXCEPT ![c] = NoTab]
    /\ thrown' = NoCaller
    /\ popped' = NoCaller

\* tab.free = false; return tab.client (lines 146-148)
TakeTab(c, id) ==
    /\ tabs' = SetFree(id, FALSE)
    /\ held' = [held EXCEPT ![c] = id]
    /\ pc' = [pc EXCEPT ![c] = "idle"]
    /\ tabId' = [tabId EXCEPT ![c] = NoTab]
    /\ thrown' = NoCaller
    /\ popped' = NoCaller

\* a tab is still created when the count has reached maxTab
HasCapacityOffByOne == Len(tabs) <= maxTab

\* createTab's test tabCount < this.maxTab (lines 115-116)
HasCapacity == Len(tabs) < maxTab

\* a require that does not look at the nulled registry
RequireStartIgnoresNull(c) ==
    /\ pc[c] = "idle" /\ held[c] = NoTab
    /\ IF FindFree # NoTab
       THEN TakeTab(c, FindFree)
       ELSE /\ pc' = [pc EXCEPT ![c] =
                        IF HasCapacity THEN "New" ELSE "noCapacity"]
            /\ thrown' = NoCaller
            /\ popped' = NoCaller
            /\ UNCHANGED <<tabs, tabId, held>>
    /\ UNCHANGED <<maxTab, existing, requireResolveTasks, chromeLauncher, nextId, killPc,
                   arrival>>

\* require() up to its first await (lines 136-138, 146-148; createTab 115-120)
RequireStart(c) ==
    /\ pc[c] = "idle" /\ held[c] = NoTab
    /\ IF IsNull
       THEN /\ Throw(c)
            /\ UNCHANGED <<tabs, held>>
       ELSE IF FindFree # NoTab
       THEN TakeTab(c, FindFree)
       ELSE /\ pc' = [pc EXCEPT ![c] =
                        IF HasCapacity THEN "New" ELSE "noCapacity"]
            /\ thrown' = NoCaller
            /\ popped' = NoCaller
            /\ UNCHANGED <<tabs, tabId, held>>
    /\ UNCHANGED <<maxTab, existing, requireResolveTasks, chromeLauncher, nextId, killPc,
                   arrival>>

\* createTab resumes after chrome.New: a new target exists (lines 120-125);
\* this.tabs[id] on a nulled this.tabs is a TypeError
NewDone(c) ==
    /\ pc[c] = "New"
    /\ nextId <= MaxTabId
    /\ nextId' = nextId + 1
    /\ IF IsNull
       THEN Throw(c)
       ELSE /\ pc' = [pc EXCEPT ![c] = "connectTab"]
            /\ tabId' = [tabId EXCEPT ![c] = nextId]
            /\ thrown' = NoCaller
            /\ popped' = NoCaller
    /\ UNCHANGED <<tabs, maxTab, existing, requireResolveTasks, chromeLauncher, held, killPc,
                   arrival>>

\* chrome.New rejects: createTab and require reject with it (line 120)
NewFail(c) ==
    /\ pc[c] = "New"
    /\ Throw(c)
    /\ UNCHANGED <<tabs, maxTab, existing, requireResolveTasks, chromeLauncher, nextId, held,
                   killPc, arrival>>

\* connectTab resolved: createTab registers the tab as free and returns its id
\* (lines 123-127); the entry goes to the object this.tabs named before the await
ConnectDone(c) ==
    /\ pc[c] = "connectTab"
    /\ tabs' = IF IsNull THEN tabs ELSE Register(tabId[c])
    /\ pc' = [pc EXCEPT ![c] = "created"]
    /\ thrown' = NoCaller
    /\ popped' = NoCaller
    /\ UNCHANGED <<maxTab, existing, requireResolveTasks, chromeLauncher, nextId, tabId, held,
                   killPc, arrival>>

\* the tab is registered before the connection is awaited, and stays when it rejects
ConnectFailRegisters(c) ==
    /\ pc[c] = "connectTab"
    /\ Throw(c)
    /\ tabs' = IF IsNull THEN tabs ELSE Register(tabId[c])
    /\ UNCHANGED <<maxTab, existing, requireResolveTasks, chromeLauncher, nextId, held,
                   killPc, arrival>>

\* chrome() or one of the four enable() calls rejects (lines 93-99)
ConnectFail(c) ==
    /\ pc[c] = "connectTab"
    /\ Throw(c)
    /\ UNCHANGED <<tabs, maxTab, existing, requireResolveTasks, chromeLauncher, nextId, held,
                   killPc, arrival>>

\* require resumes with the id createTab returned (lines 138-140, 146-148)
RequireCreated(c) ==
    /\ pc[c] = "created"
    /\ IF IsNull
       THEN /\ Throw(c)
            /\ UNCHANGED <<tabs, held>>
       ELSE TakeTab(c, tabId[c])
    /\ UNCHANGED <<maxTab, existing, requireResolveTasks, chromeLauncher, nextId, killPc,
                   arrival>>

\* require resumes with undefined from createTab and parks its resolver (lines 140-143)
RequirePark(c) ==
    /\ pc[c] = "noCapacity"
    /\ IF IsNull
       THEN /\ Throw(c)
            /\ UNCHANGED <<requireResolveTasks, arrival>>
       ELSE /\ requireResolveTasks' = Unshift(requireResolveTasks, c)
            /\ arrival' = Append(arrival, c)
            /\ pc' = [pc EXCEPT ![c] = "parked"]
            /\ thrown' = NoCaller
            /\ popped' = NoCaller
            /\ UNCHANGED tabId
    /\ UNCHANGED <<tabs, maxTab, existing, chromeLauncher, nextId, held, killPc>>

\* a parked require resumes with the id its resolver was called with (lines 141, 146-148)
RequireResume(c) ==
    /\ pc[c] = "resolved"
    /\ IF IsNull
       THEN /\ Throw(c)
            /\ UNCHANGED <<tabs, held>>
       ELSE TakeTab(c, tabId[c])
    /\ UNCHANGED <<maxTab, existing, requireResolveTasks, chromeLauncher, nextId, killPc,
                   arrival>>

\* ------------------------------------------------------------------ release
\* release(id) up to its await: look the tab up, start the navigation (lines 156-158)
ReleaseStart(c, id) ==
    /\ pc[c] = "idle"
    /\ IF IsNull \/ id \notin KeySet
       THEN Throw(c)
       ELSE /\ pc' = [pc EXCEPT ![c] = "navigate"]
            /\ tabId' = [tabId EXCEPT ![c] = id]
            /\ thrown' = NoCaller
            /\ popped' = NoCaller
    /\ UNCHANGED <<tabs, maxTab, existing, requireResolveTasks, chromeLauncher, nextId, held,
                   killPc, arrival>>

\* a release that cannot start while a require is parked
ReleaseHeldWhenNoneParked(c) ==
    /\ Len(requireResolveTasks) = 0
    /\ held[c] # NoTab
    /\ ReleaseStart(c, held[c])

\* a caller releases the session it holds
ReleaseHeld(c) ==
    /\ held[c] # NoTab
    /\ ReleaseStart(c, held[c])

\* a caller releases a session it does not hold
ReleaseOther(c, id) ==
    /\ held[c] # id
    /\ ReleaseStart(c, id)

\* the navigation resolved: free the tab, resolve the popped waiter (lines 159-163);
\* on a nulled pool this.requireResolveTasks.length is a TypeError
ReleaseDone(c) ==
    /\ pc[c] = "navigate"
    /\ held' = [held EXCEPT ![c] = IF held[c] = tabId[c] THEN NoTab ELSE held[c]]
    /\ IF IsNull
       THEN /\ Throw(c)
            /\ UNCHANGED <<tabs, requireResolveTasks, arrival>>
       ELSE /\ tabs' = SetFree(tabId[c], TRUE)
            /\ thrown' = NoCaller
            /\ IF Len(requireResolveTasks) > 0
               THEN LET w == PopValue(requireResolveTasks) IN
                    /\ requireResolveTasks' = PopRest(requireResolveTasks)
                    /\ popped' = w
                    /\ arrival' = Without(arrival, w)
                    /\ pc' = [pc EXCEPT ![c] = "idle", ![w] = "resolved"]
                    /\ tabId' = [tabId EXCEPT ![c] = NoTab, ![w] = tabId[c]]
               ELSE /\ pc' = [pc EXCEPT ![c] = "idle"]
                    /\ tabId' = [tabId EXCEPT ![c] = NoTab]
                    /\ popped' = NoCaller
                    /\ UNCHANGED <<requireResolveTasks, arrival>>
    /\ UNCHANGED <<maxTab, existing, chromeLauncher, nextId, killPc>>

\* the navigation rejected: release rejects at its await (line 158)
ReleaseFail(c) ==
    /\ pc[c] = "navigate"
    /\ Throw(c)
    /\ UNCHANGED <<tabs, maxTab, existing, requireResolveTasks, chromeLauncher, nextId, held,
                   killPc, arrival>>

\* -------------------------------------------------------------- destroyPoll
\* destroyPoll() up to its await: chromeLauncher.kill() is under way (line 171)
DestroyStart ==
    /\ killPc = "none"
    /\ killPc' = "kill"
    /\ thrown' = NoCaller
    /\ popped' = NoCaller
    /\ UNCHANGED <<tabs, maxTab, existing, requireResolveTasks, chromeLauncher, nextId, pc,
                   tabId, held, arrival>>

\* kill() resolved, but the fields are left as they are
DestroyDoneKeepsFields ==
    /\ killPc = "kill"
    /\ killPc' = "done"
    /\ thrown' = NoCaller
    /\ popped' = NoCaller
    /\ UNCHANGED <<tabs, maxTab, existing, requireResolveTasks, chromeLauncher, nextId,
                   pc, tabId, held, arrival>>

\* kill() resolved: the four fields are set to null (lines 172-175)
DestroyDone ==
    /\ killPc = "kill"
    /\ killPc' = "done"
    /\ chromeLauncher' = "null"
    /\ tabs' = <<>>
    /\ requireResolveTasks' = <<>>
    /\ thrown' = NoCaller
    /\ popped' = NoCaller
    /\ UNCHANGED <<maxTab, existing, nextId, pc, tabId, held, arrival>>

\* kill() rejected: destroyPoll rejects at its await (line 171)
DestroyFail ==
    /\ killPc = "kill"
    /\ killPc' = "failed"
    /\ thrown' = NoCaller
    /\ popped' = NoCaller
    /\ UNCHANGED <<tabs, maxTab, existing, requireResolveTasks, chromeLauncher, nextId, pc,
                   tabId, held, arrival>>

\* --------------------------------------------------------------------- Next
\* require and release by callers that release only what they hold
Core ==
    \/ \E c \in Callers : RequireStart(c)
    \/ \E c \in Callers : NewDone(c)
    \/ \E c \in Callers : ConnectDone(c)
    \/ \E c \in Callers : RequireCreated(c)
    \/ \E c \in Callers : RequirePark(c)
    \/ \E c \in Callers : RequireResume(c)
    \/ \E c \in Callers : ReleaseHeld(c)
    \/ \E c \in Callers : ReleaseDone(c)

\* the browser's rejections of New, connect and navigate
Faults ==
    \/ \E c \in Callers : NewFail(c)
    \/ \E c \in Callers : ConnectFail(c)
    \/ \E c \in Callers : ReleaseFail(c)

\* a destroyPoll call whose kill() resolves
Destroy ==
    \/ DestroyStart
    \/ DestroyDone

Next == Core

NextFaults == Core \/ Faults

NextDestroy == Core \/ Destroy

NextAny == Core \/ \E c \in Callers, id \in TabIds : ReleaseOther(c, id)

NextAll == Core \/ Faults \/ Destroy \/ DestroyFail

NextConnect == Core \/ \E c \in Callers : ConnectFail(c)

\* callers that release only what they hold; the browser never rejects
Spec == Init /\ [][Next]_vars

SpecFaults == Init /\ [][NextFaults]_vars

SpecDestroy == Init /\ [][NextDestroy]_vars

\* callers that also release sessions they do not hold
SpecAny == Init /\ [][NextAny]_vars

SpecAll == Init /\ [][NextAll]_vars

\* the browser may reject the connection to a new target
SpecConnect == Init /\ [][NextConnect]_vars

\* the event loop runs every continuation that is ready, and callers keep calling
FairDestroy ==
    /\ SpecDestroy
    /\ \A c \in Callers :
          /\ WF_vars(RequireStart(c))
          /\ WF_vars(NewDone(c))
          /\ WF_vars(ConnectDone(c))
          /\ WF_vars(RequireCreated(c))
          /\ WF_vars(RequirePark(c))
          /\ WF_vars(RequireResume(c))
          /\ WF_vars(ReleaseHeld(c))
          /\ WF_vars(ReleaseDone(c))
    /\ WF_vars(DestroyStart)
    /\ WF_vars(DestroyDone)

\* the event loop runs every continuation that is ready, the browser answers every
\* request, and a caller that holds a session releases it; nobody has to call require
FairSpec ==
    /\ Spec
    /\ \A c \in Callers :
          /\ WF_vars(NewDone(c))
          /\ WF_vars(ConnectDone(c))
          /\ WF_vars(RequireCreated(c))
          /\ WF_vars(RequirePark(c))
          /\ WF_vars(RequireResume(c))
          /\ WF_vars(ReleaseHeld(c))
          /\ WF_vars(ReleaseDone(c))

\* ------------------------------------------------------------------- claims
\* caller c has a handle of session s and has not called release on it
Holds(c, s) == held[c] = s /\ pc[c] = "idle" /\ s # NoTab

Holders == {c \in Callers : held[c] # NoTab /\ pc[c] = "idle"}

\* C1: no session is held by two callers at the same time, when callers release
\* only sessions they hold (checked under Spec, whose callers do)
C1_NoSharedSession ==
    \A a, b \in Callers : \A s \in TabIds : Holds(a, s) /\ Holds(b, s) => a = b

\* C2: the number of registered sessions never exceeds maxTab
C2_WithinCapacity == Len(tabs) <= maxTab

\* C3: whenever a release resolves a waiter, it is the waiter that has been parked
\* longest: no caller parked later is resolved before one parked earlier
C3_Fifo ==
    [][\A w \in Callers :
          pc[w] = "parked" /\ pc'[w] = "resolved" => w = Head(arrival)]_vars

\* C3 witness: with capacity 1 and one existing session, a release has just resolved
\* a waiter while another caller stays parked behind it
C3_Witness ==
    /\ maxTab = 1 /\ existing = 1
    /\ popped # NoCaller
    /\ pc[popped] = "resolved"
    /\ Len(requireResolveTasks) >= 1

\* C4: a session handed to a waiter by release is never taken by a different
\* require between the release and the waiter's resumption
C4_DirectHandover ==
    [][\A w, x \in Callers :
          (pc[w] = "resolved" /\ x # w /\ held[x] # tabId[w])
              => held'[x] # tabId[w]]_vars

\* session s is neither absent from the registry nor free: it is Busy
Busy(s) == \E i \in 1..Len(tabs) : tabs[i].id = s /\ ~tabs[i].free

\* C5: release of an id that is not Busy (absent, or already free) fails with an
\* error and leaves the registry and the wait queue unchanged
C5_ReleaseNotBusyFails ==
    [][\A c \in Callers, id \in TabIds :
          (ReleaseStart(c, id) /\ ~IsNull /\ ~Busy(id))
              => (thrown' = c /\ UNCHANGED <<tabs, requireResolveTasks>>)]_vars

\* C6: a require parked in the wait queue when destroyPoll clears the pool
\* eventually completes with a failure
C6_ParkedFailOnDestroy ==
    \A c \in Callers : (killPc = "done" /\ pc[c] = "parked") ~> (thrown = c)

\* C7: with capacity 2 and no pre-existing tabs, acquires that did not wait return
\* distinct sessions, a third acquire does not return while two sessions are held,
\* and a release hands the waiter exactly the session released
C7_CapacityTwoScenario ==
    /\ []((maxTab = 2 /\ existing = 0) =>
            /\ Cardinality(Holders) <= 2
            /\ \A a, b \in Holders : a # b => held[a] # held[b])
    /\ [][\A c, w \in Callers :
            (pc[c] = "navigate" /\ pc[w] = "parked" /\ pc'[w] = "resolved"
                /\ pc'[c] = "idle")
                => tabId'[w] = tabId[c]]_vars

\* C8: while the wait queue is non-empty every registered session is busy and the
\* number of registered sessions equals maxTab
C8_QueueOnlyWhenSaturated ==
    Len(requireResolveTasks) > 0 =>
        /\ \A i \in 1..Len(tabs) : ~tabs[i].free
        /\ Len(tabs) = maxTab

\* C9: when the reset navigation fails, release surfaces the failure and the session
\* is back in service: free, or handed to the oldest waiter
C9_FailedResetReturnsSession ==
    [][\A c \in Callers :
          ReleaseFail(c) =>
              /\ thrown' = c
              /\ \/ \E i \in 1..Len(tabs') :
                       tabs'[i].id = tabId[c] /\ tabs'[i].free
                 \/ \E w \in Callers :
                       pc[w] = "parked" /\ pc'[w] = "resolved"
                           /\ tabId'[w] = tabId[c]]_vars

\* a step that grants no session: no caller gains a handle, no waiter is resolved
NoGrant ==
    \A c \in Callers :
        /\ held'[c] = held[c] \/ held'[c] = NoTab
        /\ pc'[c] = "resolved" => pc[c] = "resolved"

\* C10 as stated: from the moment destroyPoll is invoked, the kill still being in
\* progress included, no require is granted a session and no release hands one over
C10_NoGrantOnceInvoked == [][killPc # "none" => NoGrant]_vars

\* C10 as amended: destroyPoll clears the registry and the wait queue in one step,
\* once the kill has resolved, and from that step on no require is granted a
\* session and no release hands one to a waiter
C10_NoGrantOnceCleared ==
    /\ [](killPc = "done" =>
            IsNull /\ tabs = <<>> /\ requireResolveTasks = <<>>)
    /\ [][killPc = "done" => NoGrant]_vars

\* C10 witness: after the clearing a call was rejected while a caller is parked
C10_Witness ==
    /\ killPc = "done"
    /\ thrown # NoCaller
    /\ \E w \in Callers : pc[w] = "parked"

\* C11: when the browser-process kill fails, destroyPoll surfaces the failure
\* (killPc = "failed") and the pool's fields are cleared all the same
C11_FailedKillStillClears == killPc = "failed" => IsNull

\* C12: when connecting to a new target fails during createTab, the call fails with
\* the error, the target is not registered and no other entry changes
C12_FailedConnectNotRegistered ==
    [][\A c \in Callers :
          (pc[c] = "connectTab" /\ thrown' = c)
              => /\ tabs' = tabs
                 /\ tabId[c] \notin KeySet
                 /\ pc'[c] = "idle" /\ held'[c] = NoTab]_vars

\* C12 witness: a require has just been rejected and a target the browser created
\* is neither registered nor still being connected
C12_Witness ==
    /\ thrown # NoCaller
    /\ \E id \in TabIds :
          /\ id > existing /\ id < nextId
          /\ id \notin KeySet
          /\ \A c \in Callers : tabId[c] # id

\* C13: whenever require returns a handle, the entry of its session is already
\* marked busy (free = false), whichever path produced it
C13_BusyAtReturn ==
    [][\A c \in Callers :
          (held[c] = NoTab /\ held'[c] # NoTab)
              => \E i \in 1..Len(tabs') :
                    tabs'[i].id = held'[c] /\ ~tabs'[i].free]_vars

\* C13 witness: one caller holds a session that existed at construction (found
\* free), another holds one that createTab made, and both entries are busy
C13_Witness ==
    \E a, b \in Holders :
        /\ held[a] <= existing /\ held[b] > existing
        /\ Busy(held[a]) /\ Busy(held[b])

\* C14: while a require is parked, a caller holding a session can start its
\* release, a caller holding none can start a require, and a release whose
\* navigation is under way can finish
C14_ParkedDoesNotBlock ==
    Len(requireResolveTasks) > 0 =>
        \A c \in Callers :
            /\ (pc[c] = "idle" /\ held[c] # NoTab) => ENABLED ReleaseHeld(c)
            /\ (pc[c] = "idle" /\ held[c] = NoTab) => ENABLED RequireStart(c)
            /\ pc[c] = "navigate" => ENABLED ReleaseDone(c)

\* C14 witness: a require is parked while another caller's release is under way
\* and a third caller's require is past its first step
C14_Witness ==
    /\ \E w \in Callers : pc[w] = "parked"
    /\ \E c \in Callers : pc[c] = "navigate"
    /\ \E c \in Callers : pc[c] = "noCapacity"

\* C15: while the reset navigation of release(s) is under way, s is not marked free
\* and no other caller obtains s
C15_ResetBeforeAvailable ==
    /\ [](\A c \in Callers : pc[c] = "navigate" => ~IsFree(tabId[c]))
    /\ [][\A c, x \in Callers :
            (pc[c] = "navigate" /\ x # c /\ held[x] # tabId[c])
                => held'[x] # tabId[c]]_vars

\* C16: a registered session goes from free to busy only in a step of a require
\* call that takes it, and from busy to free only in the step of a release of it
\* that follows its navigation; no other step flips the flag
C16_FlipsOnlyByRequireAndRelease ==
    [][\A i \in 1..Len(tabs) :
          (i <= Len(tabs') /\ tabs'[i].id = tabs[i].id
              /\ tabs'[i].free # tabs[i].free)
              => IF tabs[i].free
                 THEN \E c \in Callers :
                         /\ pc[c] \in {"idle", "created", "resolved"}
                         /\ held[c] = NoTab /\ held'[c] = tabs[i].id
                 ELSE \E c \in Callers :
                         /\ pc[c] = "navigate" /\ tabId[c] = tabs[i].id
                         /\ pc'[c] = "idle" /\ thrown' = NoCaller]_vars

\* C16 witness: createTab has registered a second tab while the first one is busy
\* in a caller's hands
C16_Witness ==
    /\ Len(tabs) >= 2
    /\ ~tabs[1].free
    /\ \E c \in Callers : Holds(c, tabs[1].id)
    /\ \E c \in Callers : pc[c] = "created" /\ tabId[c] = tabs[2].id

\* C17: createTab called at or above capacity returns undefined without an error,
\* asks the browser for no new target and leaves the registry and the queue unchanged
C17_NoCapacitySentinel ==
    [][\A c \in Callers :
          (RequireStart(c) /\ ~IsNull /\ FindFree = NoTab /\ Len(tabs) >= maxTab)
              => /\ pc'[c] = "noCapacity"
                 /\ tabId'[c] = NoTab
                 /\ thrown' = NoCaller
                 /\ UNCHANGED <<tabs, requireResolveTasks, nextId>>]_vars

\* C17 witness: with every tab busy and the count at maxTab, a require has got
\* undefined from createTab
C17_Witness ==
    /\ Len(tabs) >= maxTab
    /\ \A i \in 1..Len(tabs) : ~tabs[i].free
    /\ \E c \in Callers : pc[c] = "noCapacity" /\ tabId[c] = NoTab

\* C18: with the pool not destroyed, every navigation succeeding and every holder
\* releasing, every require call eventually returns a handle
C18_NoStarvation ==
    \A c \in Callers : (pc[c] \notin {"idle", "navigate"}) ~> (held[c] # NoTab)

\* the callers whose resolvers are in the queue
Queued == {requireResolveTasks[i] : i \in 1..Len(requireResolveTasks)}

\* C19: a release removes at most one waiter from the queue, a waiter is resolved
\* at most once (once resolved it is in the queue no more, and the queue holds each
\* parked caller once), and a waiter resolved by release(s) returns from require
\* with the handle of s
C19_OneWaiterOneSession ==
    /\ [](/\ Cardinality(Queued) = Len(requireResolveTasks)
          /\ Queued = {c \in Callers : pc[c] = "parked"})
    /\ [][/\ Len(requireResolveTasks') >= Len(requireResolveTasks) - 1
          /\ \A w \in Callers :
                (pc[w] = "parked" /\ pc'[w] = "resolved")
                    => \E c \in Callers :
                          /\ pc[c] = "navigate" /\ pc'[c] = "idle"
                          /\ tabId'[w] = tabId[c]
          /\ \A w \in Callers :
                pc[w] = "resolved"
                    => \/ pc'[w] = "resolved" /\ tabId'[w] = tabId[w]
                       \/ pc'[w] = "idle" /\ held'[w] = tabId[w]]_vars

\* C19 witness: a release has just resolved one of two parked waiters with the
\* session it released, and the other is still queued
C19_Witness ==
    /\ popped # NoCaller
    /\ pc[popped] = "resolved"
    /\ IsFree(tabId[popped])
    /\ Len(requireResolveTasks) >= 1
    /\ popped \notin Queued

\* C20: once destroyPoll has completed successfully, every require or release call
\* started afterwards fails with an error, marks no session Busy or Free and
\* returns no handle
C20_CallsAfterDestroyFail ==
    [][killPc = "done" =>
         \A c \in Callers :
            (RequireStart(c) \/ \E id \in TabIds : ReleaseStart(c, id))
                => /\ thrown' = c
                   /\ pc'[c] = "idle"
                   /\ tabs' = tabs
                   /\ held' = held]_vars

\* C20 witness: after the clearing, a caller that still holds an identifier called
\* release and the call was rejected
C20_Witness ==
    /\ killPc = "done"
    /\ IsNull
    /\ \E c \in Callers : thrown = c /\ pc[c] = "idle" /\ held[c] # NoTab


====
